---- MODULE Spec2Model ----
(***************************************************************************)
(* The credential-rotating request dispatcher of services/apiClient.ts     *)
(* (fetchWithTokenRotation), its callers in apiClient.ts / veo3Service.ts, *)
(* and the direct (rotation-bypassed) invocation path with its 15 s        *)
(* deadline.  One dispatch call is in progress at a time; the session      *)
(* (sessionStorage / localStorage) persists from one call to the next.     *)
(***************************************************************************)
EXTENDS Integers, Sequences, FiniteSets, TLC

\* ------------------------------------------------------------------ bounds
MaxPool == 2        \* longest shared pool / refill result explored
MaxDenials == 2     \* most gate denials explored in one call
MaxDelayTicks == 4  \* slowest server explored, in ticks of TickMs
MaxCallers == 2     \* most dispatches explored in flight together

\* ------------------------------------------------------- program constants
\* Faulty variant of PollIntervalMs: a shorter poll interval.
PollIntervalShort == 2000 \div 10

PollIntervalMs == 2000
DirectTimeoutMs == 15000
\* Time advances in thirds of the direct path's deadline.
TickMs == DirectTimeoutMs \div 3

Null == "null"

\* ------------------------------------------------------------------ values
\* Tokens are opaque strings of any length: one long, one of five characters.
TokenValues == {"ya29.a0AfH6SMBx", "c0Zz9"}
PersonalValues == {"", "ya29.a0AfH6SMBx"}
SharedRecords == {[token |-> t, createdAt |-> "2025-01-01T00:00:00Z"] : t \in TokenValues}

SeqsUpTo(S, n) == UNION {[1..k -> S] : k \in 0..n}
Pools == SeqsUpTo(SharedRecords, MaxPool)

\* What one transport round trip can produce: fetch() rejecting, a body that
\* is not JSON, or a parsed body with response.ok true or false.
Responses ==
    { [kind |-> "network", ok |-> FALSE, status |-> "0",   errMsg |-> "", msg |-> ""],
      [kind |-> "badjson", ok |-> TRUE,  status |-> "200", errMsg |-> "", msg |-> ""],
      [kind |-> "json",    ok |-> TRUE,  status |-> "200", errMsg |-> "", msg |-> ""],
      [kind |-> "json",    ok |-> FALSE, status |-> "401", errMsg |-> "Invalid credentials", msg |-> ""],
      [kind |-> "json",    ok |-> FALSE, status |-> "429", errMsg |-> "", msg |-> "Quota exceeded"],
      [kind |-> "json",    ok |-> FALSE, status |-> "500", errMsg |-> "", msg |-> ""] }

\* Replies of supabase.rpc('request_generation_slot'): { data: acquired, error }
GateReplies ==
    { [acquired |-> TRUE,  error |-> Null],
      [acquired |-> FALSE, error |-> Null],
      [acquired |-> FALSE, error |-> "connection refused"] }

\* Results of getVeoAuthTokens(): a rejection, or a list (null counts as empty)
RefillResults ==
    {[ok |-> FALSE, tokens |-> <<>>]} \cup {[ok |-> TRUE, tokens |-> p] : p \in Pools}

\* ----------------------------------------------------------- pure helpers
Includes(s, sub) ==
    \E k \in 1..(Len(s) - Len(sub) + 1) : SubSeq(s, k, k + Len(sub) - 1) = sub

SliceLast6(s) == IF Len(s) <= 6 THEN s ELSE SubSeq(s, Len(s) - 5, Len(s))

Count(seq, x) == Cardinality({k \in DOMAIN seq : seq[k] = x})

TokensOf(seq) == [k \in DOMAIN seq |-> seq[k].token]

MkError(n, m) == [name |-> n, message |-> m]

NoError == MkError(Null, "")

NoToken == [token |-> "", createdAt |-> ""]

NoData == [kind |-> "none", ok |-> FALSE, status |-> "", errMsg |-> "", msg |-> ""]

Pending == [status |-> "pending", data |-> NoData, successfulToken |-> "", error |-> NoError]

Returned(d, t) == [status |-> "returned", data |-> d, successfulToken |-> t, error |-> NoError]

Thrown(e) == [status |-> "thrown", data |-> NoData, successfulToken |-> "", error |-> e]

\* --------------------------------------------------------------- requests
MkReq(op, endpoint, logContext, specificToken, direct) ==
    [op |-> op, endpoint |-> endpoint, logContext |-> logContext,
     specificToken |-> specificToken, direct |-> direct]

\* The locals of one dispatch between lines 120 and 157: where it is, its
\* personalToken, sharedTokens and tokensToTry, and what its refill gave it.
Caller(at, personal, shared, list, asked, res) ==
    [pc |-> at, personalToken |-> personal, sharedTokens |-> shared, tokensToTry |-> list,
     asked |-> asked, res |-> res]

NoCaller == Caller("idle", NoToken, <<>>, <<>>, FALSE, [ok |-> FALSE, tokens |-> <<>>])

\* --------------------------------------------------------- progress statuses
WaitingStatus == "Semua slot sedang digunakan. Anda berada dalam barisan menunggu..."

RetryStatus == "Mencuba semula untuk mendapatkan slot dalam 2 saat..."

AcquiredStatus == "Slot berjaya diperoleh. Memulakan penjanaan..."

AttemptStatus(ident) == "Attempting generation with " \o ident \o "..."

\* if (onStatusUpdate) onStatusUpdate(status)
Notify(cb, log, status) == IF cb THEN Append(log, status) ELSE log

\* Faulty variant of NotifyGateError: the status is not cleared.
NotifyGateErrorSkipped(cb, log) == log

\* Line 105.
NotifyGateError(cb, log) == Notify(cb, log, "")

\* ------------------------------------------------------------ proxy URLs
NodeEnvs == {"production", "development"}

\* Values of sessionStorage 'selectedProxyServer'; "" stands for no item.
ProxyChoices == {"", "https://s1.monoklix.com", "https://s2.monoklix.com"}

GetVeoProxyUrl(selected, env) ==
    IF selected # "" THEN selected
    ELSE IF env = "production" THEN "https://veox.monoklix.com" ELSE ""

GetImagenProxyUrl(selected, env) ==
    IF selected # "" THEN selected
    ELSE IF env = "production" THEN "https://gemx.monoklix.com" ELSE ""

GetProxyBaseUrl(srv) == srv \o "/api/imagen"

GatedPaths == {"/generate", "/run-recipe"}

StartsWith(s, prefix) ==
    Len(prefix) <= Len(s) /\ SubSeq(s, 1, Len(prefix)) = prefix

\* Line 94: the server identity handed to the gate.
ServerUrl(endpoint, imagenProxyUrl, veoProxyUrl) ==
    IF StartsWith(endpoint, imagenProxyUrl) THEN imagenProxyUrl ELSE veoProxyUrl

\* A gated dispatch: its endpoint, the serverUrl it resolved, the server_url
\* of each rpc it made so far.
GateState(at, endpoint, serverUrl, rpcs) ==
    [pc |-> at, endpoint |-> endpoint, serverUrl |-> serverUrl, rpcs |-> rpcs]

NoGated == GateState("idle", "", "", <<>>)

NoReq == MkReq("", "", "", "", FALSE)

\* The calls of fetchWithTokenRotation made by the two services.
RotationRequests ==
    {MkReq("generateImageWithImagen", "/api/imagen/generate", "IMAGEN GENERATE", "", FALSE)}
    \cup {MkReq("runImageRecipe", "/api/imagen/run-recipe", "IMAGEN RECIPE", t, FALSE) :
            t \in TokenValues \cup {""}}
    \cup {MkReq("uploadImageForImagen", "/api/imagen/upload", "IMAGEN UPLOAD", t, FALSE) :
            t \in TokenValues \cup {""}}
    \cup {MkReq("generateVideoWithVeo3", "/api/veo/generate-t2v", "VEO T2V", "", FALSE),
          MkReq("generateVideoWithVeo3", "/api/veo/generate-i2v", "VEO I2V", "", FALSE)}
    \cup {MkReq("checkVideoStatus", "/api/veo/status", "VEO STATUS", t, FALSE) :
            t \in TokenValues}
    \cup {MkReq("uploadImageForVeo3", "/api/veo/upload", "VEO UPLOAD", "", FALSE)}

\* generateImageWithImagen / generateVideoWithVeo3 called with config.authToken.
DirectRequests ==
    {MkReq("generateImageWithImagen", "/api/imagen/generate", "", t, TRUE) : t \in TokenValues}
    \cup {MkReq("generateVideoWithVeo3", e, "", t, TRUE) :
            e \in {"/api/veo/generate-t2v", "/api/veo/generate-i2v"}, t \in TokenValues}

\* ------------------------------------------------- fetchWithTokenRotation
IsGenerationRequest(logContext) ==
    Includes(logContext, "GENERATE") \/ Includes(logContext, "RECIPE")

\* Faulty variant of GateFailed: the error of the gate call is not looked at.
GateErrorIgnored(reply) == FALSE

GateFailed(reply) == reply.error # Null

\* Faulty variant of SlotAcquired: any reply without an error counts as a grant.
SlotAlwaysAcquired(reply) == TRUE

SlotAcquired(reply) == reply.acquired

GetSharedTokens(tokensJSON) == IF Len(tokensJSON) > 0 THEN tokensJSON ELSE <<>>

GetPersonalToken(personalAuth) ==
    IF personalAuth # "" THEN [token |-> personalAuth, createdAt |-> "personal"] ELSE NoToken

\* Faulty variant of Swap: one element is copied over the other.
SwapOverwrite(s, a, b) == [s EXCEPT ![a] = s[b]]

\* Line 131: the destructuring exchange of two elements.
Swap(s, a, b) == [s EXCEPT ![a] = s[b], ![b] = s[a]]

\* Every array the Fisher-Yates loop can leave behind: positions n down to 2
\* (1-based), each swapped with a position j <= i drawn by Math.random().
RECURSIVE ShuffleFrom(_, _)
ShuffleFrom(s, n) ==
    IF n <= 1 THEN {s}
    ELSE UNION {ShuffleFrom(Swap(s, n, j), n - 1) : j \in 1..n}

Shuffles(s) == ShuffleFrom(s, Len(s))

\* Faulty variant of AdoptRefill: the refilled tokens are taken in reverse order.
AdoptRefillReversed(shared, res) ==
    IF res.ok /\ Len(res.tokens) > 0
      THEN [k \in DOMAIN res.tokens |-> res.tokens[Len(res.tokens) + 1 - k]]
      ELSE shared

\* Faulty variant of AdoptRefill: the refilled tokens are stored but not used.
AdoptRefillDropped(shared, res) == shared

AdoptRefill(shared, res) ==
    IF res.ok /\ Len(res.tokens) > 0 THEN res.tokens ELSE shared

\* Faulty variant of StoreRefill: whatever the refill gave is written.
StoreRefillAlways(stored, res) == res.tokens

\* Faulty variant of StoreRefill: the refill's result is added to what is stored.
StoreRefillMerged(stored, res) == stored \o res.tokens

\* Faulty variant of StoreRefill: the refill's result is not written to the cache.
StoreRefillSkipped(stored, res) == stored

StoreRefill(stored, res) ==
    IF res.ok /\ Len(res.tokens) > 0 THEN res.tokens ELSE stored

\* Faulty variant of CandidateList: the personal credential goes last.
CandidateListPersonalLast(personal, shared) ==
    shared \o (IF personal # NoToken THEN <<personal>> ELSE <<>>)

\* Faulty variant of CandidateList: the personal credential is left out.
CandidateListSharedOnly(personal, shared) == shared

CandidateList(personal, shared) ==
    (IF personal # NoToken THEN <<personal>> ELSE <<>>) \o shared

\* Faulty variant of ExplicitList: the explicit credential is listed twice.
ExplicitListTwice(specificToken) ==
    <<[token |-> specificToken, createdAt |-> "N/A"],
      [token |-> specificToken, createdAt |-> "N/A"]>>

ExplicitList(specificToken) == <<[token |-> specificToken, createdAt |-> "N/A"]>>

\* Faulty variant of IsPersonal: every candidate is taken for the personal one.
IsPersonalAlways(cand) == TRUE

IsPersonal(cand) == cand.createdAt = "personal"

TokenIdentifier(list, i, personalNow) ==
    IF IsPersonal(list[i]) THEN "Personal Token"
    ELSE "Shared Token #" \o ToString((i - 1) - (IF personalNow # NoToken THEN 1 ELSE 0) + 1)

\* Faulty variant of IsSuccess: a good response is not recognised.
IsSuccessNever(resp) == FALSE

IsSuccess(resp) == resp.kind = "json" /\ resp.ok

ApiErrorMessage(resp) ==
    IF resp.errMsg # "" THEN resp.errMsg
    ELSE IF resp.msg # "" THEN resp.msg
    ELSE "API call failed (" \o resp.status \o ")"

\* The error the try block raises for a round trip that is not a success.
ErrorOf(resp) ==
    CASE resp.kind = "network" -> MkError("TypeError", "Failed to fetch")
      [] resp.kind = "badjson" -> MkError("SyntaxError", "Unexpected token < in JSON at position 0")
      [] OTHER -> MkError("Error", ApiErrorMessage(resp))

\* Faulty variant of CatchError: the first error is kept instead of the latest one.
CatchFirstError(prev, err) == IF prev = NoError THEN err ELSE prev

CatchError(prev, err) == err

\* Faulty variant of SuccessResult: the call ends without a result.
SuccessResultNone(list, i, resp) == Pending

\* Faulty variant of SuccessResult: the first candidate's token is reported.
SuccessResultFirstToken(list, i, resp) == Returned(resp, list[1].token)

SuccessResult(list, i, resp) == Returned(resp, list[i].token)

AttemptEntry(logContext, ident, cand) ==
    [model |-> logContext, prompt |-> "Attempt with " \o ident,
     output |-> "..." \o SliceLast6(cand.token), status |-> "Success", error |-> ""]

FailureEntry(logContext, ident, err) ==
    [model |-> logContext, prompt |-> ident \o " failed",
     output |-> err.message, status |-> "Error", error |-> err.message]

AggregateEntry(logContext, err) ==
    [model |-> logContext, prompt |-> "All available auth tokens failed.",
     output |-> "Final error: " \o err.message, status |-> "Error", error |-> err.message]

LogAttempt(log, entry) == Append(log, entry)

\* Faulty variant of LogFailure: the failure of an attempt is not recorded.
LogFailureSkipped(log, entry) == log

LogFailure(log, entry) == Append(log, entry)

LogAggregate(log, entry) == Append(log, entry)

\* Faulty variant of NoTokensError: the error names no request.
NoTokensErrorBare(logContext) == MkError("Error", "Auth Token is required.")

NoTokensError(logContext) ==
    MkError("Error", "Auth Token is required for " \o logContext \o ". Please set one in Settings.")

\* Entries of gateLog: a call of the gate with the reply it got, or a sleep.
GateCall(reply) == [ev |-> "rpc", acquired |-> reply.acquired, error |-> reply.error, ms |-> 0]

Sleep(ms) == [ev |-> "sleep", acquired |-> FALSE, error |-> Null, ms |-> ms]

GateError(reply) ==
    MkError("Error", "Database error while requesting a generation slot: " \o reply.error)

\* ------------------------------------------------------------------ state
VARIABLES
    personalAuthToken,  \* localStorage currentUser.personalAuthToken ("" when unset)
    veoAuthTokens,      \* sessionStorage 'veoAuthTokens' (the shared-pool cache)
    refilled,           \* history: what the session's last adopted refill returned
    pc,                 \* where the call in progress is suspended
    req,                \* the arguments of the call in progress
    personalToken,      \* local personalToken (line 125)
    sharedTokens,       \* local sharedTokens (line 126)
    tokensToTry,        \* local tokensToTry
    idx,                \* loop index i, 1-based
    lastError,          \* local lastError
    outcome,            \* what the call gave its caller
    logEntries,         \* entries handed to addLogEntry during the call
    busEvents,          \* events handed to eventBus.dispatch during the call
    gateLog,            \* gate replies and 2 s sleeps of the call, in order
    fetchLog,           \* fetch() calls of the call, in order
    replies,            \* what each completed fetch() round trip produced
    refillLog,          \* results of getVeoAuthTokens() during the call
    elapsed,            \* direct path: ms since the abort timer was armed
    timerArmed,         \* direct path: the setTimeout is pending
    server,             \* direct path: when and how the server answers
    compose,            \* editOrComposeWithImagen: none, uploading or recipe
    cAuth,              \* editOrComposeWithImagen: request.config.authToken
    up,                 \* editOrComposeWithImagen: one upload promise per image
    callers,            \* overlapping dispatches: the locals of each, lines 120-157
    nodeEnv,            \* process.env.NODE_ENV of the build
    selectedProxyServer,\* sessionStorage 'selectedProxyServer' ("" when unset)
    imagenBaseUrl,      \* PROXY_BASE_URL of the Imagen service module (line 250)
    gated,              \* a gated Imagen dispatch: endpoint, serverUrl, rpc calls
    onStatusUpdate,     \* the call in progress was given a progress callback
    statuses            \* strings handed to onStatusUpdate during the call

vars == <<personalAuthToken, veoAuthTokens, refilled, pc, req, personalToken, sharedTokens,
          tokensToTry, idx, lastError, outcome, logEntries, busEvents, gateLog,
          fetchLog, replies, refillLog, elapsed, timerArmed, server, compose, cAuth, up,
          callers, nodeEnv, selectedProxyServer, imagenBaseUrl, gated, onStatusUpdate,
          statuses>>

composeVars == <<compose, cAuth, up>>

proxyVars == <<nodeEnv, selectedProxyServer, imagenBaseUrl, gated>>

statusVars == <<onStatusUpdate, statuses>>

sideVars == <<composeVars, callers, proxyVars, statusVars>>

callVars == <<pc, req, personalToken, sharedTokens, tokensToTry, idx, lastError, outcome,
              logEntries, busEvents, gateLog, fetchLog, replies, refillLog, elapsed,
              timerArmed, server>>

session == <<personalAuthToken, veoAuthTokens, refilled>>

directVars == <<elapsed, timerArmed, server>>

NoServer == [headersAt |-> 0, bodyAt |-> 0, resp |-> NoData]

InitSession ==
    /\ personalAuthToken \in PersonalValues
    /\ veoAuthTokens \in Pools
    /\ refilled = <<>>
    /\ pc = "idle"
    /\ req = NoReq
    /\ personalToken = NoToken
    /\ sharedTokens = <<>>
    /\ tokensToTry = <<>>
    /\ idx = 0
    /\ lastError = NoError
    /\ outcome = Pending
    /\ logEntries = <<>>
    /\ busEvents = <<>>
    /\ gateLog = <<>>
    /\ fetchLog = <<>>
    /\ replies = <<>>
    /\ refillLog = <<>>
    /\ elapsed = 0
    /\ timerArmed = FALSE
    /\ server = NoServer
    /\ compose = "none"
    /\ cAuth = ""
    /\ up = <<>>
    /\ callers = [i \in 1..MaxCallers |-> NoCaller]
    /\ gated = NoGated
    /\ onStatusUpdate = FALSE
    /\ statuses = <<>>

\* The service modules are loaded: PROXY_BASE_URL is fixed from the proxy
\* selection of that moment (lines 246-250).
ModulesLoaded(env, selected) ==
    /\ nodeEnv = env
    /\ selectedProxyServer = selected
    /\ imagenBaseUrl = GetProxyBaseUrl(GetImagenProxyUrl(selected, env))

\* A development build with no proxy selected: the endpoints are the relative
\* ones of RotationRequests.
Init == InitSession /\ ModulesLoaded("development", "")

\* Any build, any selection at load time.
InitProxy ==
    /\ InitSession
    /\ \E env \in NodeEnvs, selected \in ProxyChoices : ModulesLoaded(env, selected)

\* Lines 162-171: the head of iteration i, up to the await of fetch().
BeginAttempt(r, list, i, log) ==
    /\ idx' = i
    /\ logEntries' = LogAttempt(log, AttemptEntry(r.logContext,
                         TokenIdentifier(list, i, GetPersonalToken(personalAuthToken)), list[i]))
    /\ fetchLog' = Append(fetchLog,
                         [token |-> list[i].token, endpoint |-> r.endpoint,
                          fromPersonal |-> (r.specificToken = "" /\ i = 1
                                             /\ personalAuthToken # "")])
    /\ pc' = "fetch"
    /\ outcome' = Pending

\* Lines 154-171: the empty-list check and the first iteration's head.
EnterLoop(r, list) ==
    /\ tokensToTry' = list
    /\ lastError' = NoError
    /\ IF Len(list) = 0
         THEN /\ pc' = "done"
              /\ outcome' = Thrown(NoTokensError(r.logContext))
              /\ UNCHANGED <<idx, logEntries, fetchLog>>
         ELSE BeginAttempt(r, list, 1, logEntries)

\* Lines 120-152, up to the await of getVeoAuthTokens() when the pool is empty.
SelectCredentials(r) ==
    IF r.specificToken # ""
      THEN /\ EnterLoop(r, ExplicitList(r.specificToken))
           /\ UNCHANGED <<personalToken, sharedTokens>>
      ELSE /\ personalToken' = GetPersonalToken(personalAuthToken)
           /\ \E sh \in Shuffles(GetSharedTokens(veoAuthTokens)) :
                /\ sharedTokens' = sh
                /\ IF Len(sh) = 0
                     THEN /\ pc' = "refill"
                          /\ UNCHANGED <<tokensToTry, idx, lastError, outcome, logEntries, fetchLog>>
                     ELSE EnterLoop(r, CandidateList(GetPersonalToken(personalAuthToken), sh))

\* A service calls fetchWithTokenRotation (lines 84-98, and on when not gated).
Call(r) ==
    /\ pc = "idle"
    /\ req' = r
    /\ IF IsGenerationRequest(r.logContext)
         THEN /\ pc' = "rpc"
              /\ UNCHANGED <<personalToken, sharedTokens, tokensToTry, idx, lastError,
                             outcome, logEntries, fetchLog>>
         ELSE SelectCredentials(r)
    /\ UNCHANGED <<session, busEvents, gateLog, replies, refillLog, directVars>>

\* The gate call returns an error (lines 103-107).
GateFails(reply) ==
    /\ pc = "rpc"
    /\ GateFailed(reply)
    /\ gateLog' = Append(gateLog, GateCall(reply))
    /\ pc' = "done"
    /\ outcome' = Thrown(GateError(reply))
    /\ UNCHANGED <<session, req, personalToken, sharedTokens, tokensToTry, idx,
                   lastError, logEntries, busEvents, fetchLog, replies, refillLog, directVars>>

\* The gate grants the slot (lines 108-109, 115) and the call goes on to select.
GateGrants(reply) ==
    /\ pc = "rpc"
    /\ ~GateFailed(reply)
    /\ SlotAcquired(reply)
    /\ gateLog' = Append(gateLog, GateCall(reply))
    /\ SelectCredentials(req)
    /\ UNCHANGED <<session, req, busEvents, replies, refillLog, directVars>>

\* The gate denies the slot (lines 110-112): the call starts its 2 s sleep.
GateDenies(reply) ==
    /\ pc = "rpc"
    /\ ~GateFailed(reply)
    /\ ~SlotAcquired(reply)
    /\ Cardinality({k \in DOMAIN gateLog : gateLog[k].ev = "sleep"}) < MaxDenials
    /\ gateLog' = Append(gateLog, GateCall(reply))
    /\ pc' = "sleep"
    /\ UNCHANGED <<session, req, personalToken, sharedTokens, tokensToTry, idx,
                   lastError, outcome, logEntries, busEvents, fetchLog, replies, refillLog,
                   directVars>>

\* The setTimeout of line 112 fires and the loop calls the gate again.
SleepDone ==
    /\ pc = "sleep"
    /\ gateLog' = Append(gateLog, Sleep(PollIntervalMs))
    /\ pc' = "rpc"
    /\ UNCHANGED <<session, req, personalToken, sharedTokens, tokensToTry, idx,
                   lastError, outcome, logEntries, busEvents, fetchLog, replies, refillLog,
                   directVars>>

\* getVeoAuthTokens() settles (lines 137-157, and the first iteration's head).
RefillSettles(res) ==
    /\ pc = "refill"
    /\ refillLog' = Append(refillLog, res)
    /\ veoAuthTokens' = StoreRefill(veoAuthTokens, res)
    /\ refilled' = IF res.ok /\ Len(res.tokens) > 0 THEN res.tokens ELSE refilled
    /\ sharedTokens' = AdoptRefill(sharedTokens, res)
    /\ EnterLoop(req, CandidateList(personalToken, AdoptRefill(sharedTokens, res)))
    /\ UNCHANGED <<personalAuthToken, req, personalToken, busEvents, gateLog, replies,
                   directVars>>

\* The round trip of iteration i settles (lines 181-206, then 208-210 or the
\* next iteration's head).
FetchSettles(resp) ==
    /\ pc = "fetch"
    /\ replies' = Append(replies, resp)
    /\ IF IsSuccess(resp)
         THEN /\ pc' = "done"
              /\ outcome' = SuccessResult(tokensToTry, idx, resp)
              /\ UNCHANGED <<idx, lastError, logEntries, busEvents, fetchLog>>
         ELSE LET err == CatchError(lastError, ErrorOf(resp))
                  ident == TokenIdentifier(tokensToTry, idx, GetPersonalToken(personalAuthToken))
                  log1 == LogFailure(logEntries, FailureEntry(req.logContext, ident, ErrorOf(resp)))
              IN  /\ lastError' = err
                  /\ busEvents' = IF IsPersonal(tokensToTry[idx])
                                    THEN Append(busEvents, "personalTokenFailed")
                                    ELSE busEvents
                  /\ IF idx < Len(tokensToTry)
                       THEN BeginAttempt(req, tokensToTry, idx + 1, log1)
                       ELSE /\ idx' = idx + 1
                            /\ logEntries' = LogAggregate(log1, AggregateEntry(req.logContext, err))
                            /\ pc' = "done"
                            /\ outcome' = Thrown(err)
                            /\ UNCHANGED fetchLog
    /\ UNCHANGED <<session, req, personalToken, sharedTokens, tokensToTry, gateLog,
                   refillLog, directVars>>

\* ------------------------------------------------- direct invocation path
\* When the server's answer is complete: fetch() settles at headersAt, and
\* response.json() at bodyAt.
ServerBehaviours ==
    {[headersAt |-> h * TickMs, bodyAt |-> b * TickMs, resp |-> x] :
        h \in 0..MaxDelayTicks, b \in 0..MaxDelayTicks, x \in Responses}

ValidServer(srv) ==
    /\ srv.headersAt <= srv.bodyAt
    /\ srv.resp.kind = "network" => srv.bodyAt = srv.headersAt

CompletesAt(srv) == IF srv.resp.kind = "network" THEN srv.headersAt ELSE srv.bodyAt

AbortError == MkError("AbortError", "The user aborted a request.")

TimedOutError == MkError("Error", "Request timed out after 15 seconds.")

\* Faulty variant of DirectCatch: the abort is rethrown as it came.
DirectCatchRethrow(error) == error

\* The catch block of the direct path (apiClient.ts 322-326, veo3Service.ts 94-98).
DirectCatch(error) == IF error.name = "AbortError" THEN TimedOutError ELSE error

TimerDue == timerArmed /\ elapsed >= DirectTimeoutMs

ResponseDue ==
    \/ pc = "dfetch" /\ elapsed >= server.headersAt
    \/ pc = "djson" /\ elapsed >= server.bodyAt

\* Faulty variant of DirectBearer: the stored personal token is preferred.
DirectBearerFromStore(r) ==
    IF personalAuthToken # "" THEN personalAuthToken ELSE r.specificToken

\* The bearer credential of the direct fetch(): config.authToken.
DirectBearer(r) == r.specificToken

\* generateImageWithImagen / generateVideoWithVeo3 with config.authToken: arm
\* the abort timer and start the one fetch().
CallDirect(r, srv) ==
    /\ pc = "idle"
    /\ ValidServer(srv)
    /\ req' = r
    /\ server' = srv
    /\ elapsed' = 0
    /\ timerArmed' = TRUE
    /\ fetchLog' = Append(fetchLog, [token |-> DirectBearer(r), endpoint |-> r.endpoint,
                                     fromPersonal |-> FALSE])
    /\ pc' = "dfetch"
    /\ UNCHANGED <<session, personalToken, sharedTokens, tokensToTry, idx, lastError, outcome,
                   logEntries, busEvents, gateLog, replies, refillLog>>

\* Time passes while the direct call waits and nothing is due.
Tick ==
    /\ pc \in {"dfetch", "djson"}
    /\ ~TimerDue
    /\ ~ResponseDue
    /\ elapsed' = elapsed + TickMs
    /\ UNCHANGED <<session, pc, req, personalToken, sharedTokens, tokensToTry, idx,
                   lastError, outcome, logEntries, busEvents, gateLog, fetchLog, replies,
                   refillLog, timerArmed, server>>

\* fetch() settles: a rejection goes to the catch block, a response to json().
DirectFetchSettles ==
    /\ pc = "dfetch"
    /\ elapsed >= server.headersAt
    /\ IF server.resp.kind = "network"
         THEN /\ replies' = Append(replies, server.resp)
              /\ outcome' = Thrown(DirectCatch(ErrorOf(server.resp)))
              /\ timerArmed' = FALSE
              /\ pc' = "done"
         ELSE /\ pc' = "djson"
              /\ UNCHANGED <<replies, outcome, timerArmed>>
    /\ UNCHANGED <<session, req, personalToken, sharedTokens, tokensToTry, idx,
                   lastError, logEntries, busEvents, gateLog, fetchLog, refillLog, elapsed,
                   server>>

\* response.json() settles: return the data, or throw into the catch block.
DirectJsonSettles ==
    /\ pc = "djson"
    /\ elapsed >= server.bodyAt
    /\ replies' = Append(replies, server.resp)
    /\ outcome' = IF IsSuccess(server.resp)
                    THEN Returned(server.resp, req.specificToken)
                    ELSE Thrown(DirectCatch(ErrorOf(server.resp)))
    /\ timerArmed' = FALSE
    /\ pc' = "done"
    /\ UNCHANGED <<session, req, personalToken, sharedTokens, tokensToTry, idx,
                   lastError, logEntries, busEvents, gateLog, fetchLog, refillLog, elapsed,
                   server>>

\* The 15 s timer fires: controller.abort() rejects the pending fetch() or
\* json() with an AbortError, which the catch block turns into the timeout.
TimerFires ==
    /\ pc \in {"dfetch", "djson"}
    /\ TimerDue
    /\ outcome' = Thrown(DirectCatch(AbortError))
    /\ timerArmed' = FALSE
    /\ pc' = "done"
    /\ UNCHANGED <<session, req, personalToken, sharedTokens, tokensToTry, idx,
                   lastError, logEntries, busEvents, gateLog, fetchLog, replies, refillLog,
                   elapsed, server>>

\* The caller has its result; the session is ready for the next call.
Finish ==
    /\ pc = "done"
    /\ pc' = "idle"
    /\ req' = NoReq
    /\ personalToken' = NoToken
    /\ sharedTokens' = <<>>
    /\ tokensToTry' = <<>>
    /\ idx' = 0
    /\ lastError' = NoError
    /\ outcome' = Pending
    /\ logEntries' = <<>>
    /\ busEvents' = <<>>
    /\ gateLog' = <<>>
    /\ fetchLog' = <<>>
    /\ replies' = <<>>
    /\ refillLog' = <<>>
    /\ elapsed' = 0
    /\ timerArmed' = FALSE
    /\ server' = NoServer
    /\ UNCHANGED session

Next ==
    \/ \E r \in RotationRequests : Call(r) /\ UNCHANGED sideVars
    \/ \E g \in GateReplies : GateFails(g) /\ UNCHANGED sideVars
    \/ \E g \in GateReplies : GateGrants(g) /\ UNCHANGED sideVars
    \/ \E g \in GateReplies : GateDenies(g) /\ UNCHANGED sideVars
    \/ SleepDone /\ UNCHANGED sideVars
    \/ \E res \in RefillResults : RefillSettles(res) /\ UNCHANGED sideVars
    \/ \E resp \in Responses : FetchSettles(resp) /\ UNCHANGED sideVars
    \/ \E r \in DirectRequests, srv \in ServerBehaviours :
          CallDirect(r, srv) /\ UNCHANGED sideVars
    \/ Tick /\ UNCHANGED sideVars
    \/ DirectFetchSettles /\ UNCHANGED sideVars
    \/ DirectJsonSettles /\ UNCHANGED sideVars
    \/ TimerFires /\ UNCHANGED sideVars
    \/ Finish /\ UNCHANGED sideVars

Spec == Init /\ [][Next]_vars

\* ------------------------------------------------ editOrComposeWithImagen
\* The flow of lines 366-393: one uploadImageForImagen per image, all started
\* in the same synchronous map(), joined by Promise.all, then runImageRecipe.
\* The uploads are dispatches of their own (their locals are the fields of an
\* upload record); the run-recipe dispatch is the call tracked by pc and req.
MaxImages == 2

UploadLabel == "IMAGEN UPLOAD"

RecipeRequest(auth) ==
    MkReq("runImageRecipe", "/api/imagen/run-recipe", "IMAGEN RECIPE", auth, FALSE)

\* Bodies of a successful /upload answer: the media id can sit in one of three
\* places, or be missing.
UploadBodies ==
    { [uploadMediaGenerationId |-> "",        mediaGenerationId |-> "", mediaId |-> ""],
      [uploadMediaGenerationId |-> "media-1", mediaGenerationId |-> "", mediaId |-> ""],
      [uploadMediaGenerationId |-> "",        mediaGenerationId |-> "", mediaId |-> "media-1"] }

\* The body that comes with a round trip: only a success has one to look into.
BodiesOf(resp) ==
    IF IsSuccess(resp)
      THEN UploadBodies
      ELSE {[uploadMediaGenerationId |-> "", mediaGenerationId |-> "", mediaId |-> ""]}

\* What getVeoAuthTokens() gives an upload: a failure, nothing, or one token
\* (longer results add nothing to the join but candidate lists).
UploadRefills == {res \in RefillResults : Len(res.tokens) <= 1}

MediaIdOf(data) ==
    IF data.uploadMediaGenerationId # "" THEN data.uploadMediaGenerationId
    ELSE IF data.mediaGenerationId # "" THEN data.mediaGenerationId
    ELSE data.mediaId

\* An upload promise: suspended in its dispatch (refill, fetch) or settled
\* (ok: fulfilled with mediaId; failed: rejected).
Upload(at, personal, list, i, mediaId) ==
    [pc |-> at, personal |-> personal, list |-> list, idx |-> i, mediaId |-> mediaId]

Fulfilled(mediaId) == Upload("ok", NoToken, <<>>, 0, mediaId)

Rejected == Upload("failed", NoToken, <<>>, 0, "")

\* The dispatch of one upload from its call to its first await.
NewUpload(auth, personalAuth, sh) ==
    IF auth # ""
      THEN Upload("fetch", NoToken, ExplicitList(auth), 1, "")
      ELSE IF Len(sh) = 0
             THEN Upload("refill", GetPersonalToken(personalAuth), <<>>, 0, "")
             ELSE Upload("fetch", GetPersonalToken(personalAuth),
                         CandidateList(GetPersonalToken(personalAuth), sh), 1, "")

\* The upload's refill has settled: it fails with no candidate or goes on to
\* its first attempt.
UploadAfterRefill(u, res) ==
    LET list == CandidateList(u.personal, AdoptRefill(<<>>, res))
    IN  IF Len(list) = 0 THEN Rejected ELSE Upload("fetch", u.personal, list, 1, "")

\* One round trip of the upload has settled: the dispatch returns and the
\* media id is looked up, or the next candidate is tried, or the last error
\* is thrown.
UploadAfterFetch(u, resp, body) ==
    IF IsSuccess(resp)
      THEN IF MediaIdOf(body) # "" THEN Fulfilled(MediaIdOf(body)) ELSE Rejected
      ELSE IF u.idx < Len(u.list) THEN [u EXCEPT !.idx = u.idx + 1] ELSE Rejected

\* Faulty variant of JoinOf: the join waits for every upload to settle and
\* then resolves, whatever the uploads' outcomes.
JoinAllSettled(u) ==
    IF \A i \in DOMAIN u : u[i].pc \in {"ok", "failed"} THEN "resolved" ELSE "pending"

\* Promise.all over the upload promises.
JoinOf(u) ==
    IF \E i \in DOMAIN u : u[i].pc = "failed" THEN "rejected"
    ELSE IF \A i \in DOMAIN u : u[i].pc = "ok" THEN "resolved"
    ELSE "pending"

\* editOrComposeWithImagen is called with n images: every upload is dispatched
\* before the first await returns.
ComposeStart(n, auth) ==
    /\ compose = "none"
    /\ pc = "idle"
    /\ ~IsGenerationRequest(UploadLabel)
    /\ compose' = "uploading"
    /\ cAuth' = auth
    /\ \E shs \in [1..n -> Shuffles(GetSharedTokens(veoAuthTokens))] :
         up' = [i \in 1..n |-> NewUpload(auth, personalAuthToken, shs[i])]
    /\ UNCHANGED <<session, callVars>>

\* getVeoAuthTokens() of upload i settles.
UploadRefillSettles(i, res) ==
    /\ compose = "uploading"
    /\ i \in DOMAIN up
    /\ up[i].pc = "refill"
    /\ veoAuthTokens' = StoreRefill(veoAuthTokens, res)
    /\ refilled' = IF res.ok /\ Len(res.tokens) > 0 THEN res.tokens ELSE refilled
    /\ up' = [up EXCEPT ![i] = UploadAfterRefill(up[i], res)]
    /\ UNCHANGED <<personalAuthToken, callVars, compose, cAuth>>

\* A round trip of upload i settles.
UploadFetchSettles(i, resp, body) ==
    /\ compose = "uploading"
    /\ i \in DOMAIN up
    /\ up[i].pc = "fetch"
    /\ up' = [up EXCEPT ![i] = UploadAfterFetch(up[i], resp, body)]
    /\ UNCHANGED <<session, callVars, compose, cAuth>>

\* The join has resolved: lines 376-390, up to the dispatch of run-recipe.
StartRecipe ==
    /\ compose = "uploading"
    /\ JoinOf(up) = "resolved"
    /\ Call(RecipeRequest(cAuth))
    /\ compose' = "recipe"
    /\ UNCHANGED <<cAuth, up>>

\* The join has rejected and editOrComposeWithImagen has thrown; the uploads
\* still in flight run to their end.
ComposeFails ==
    /\ compose = "uploading"
    /\ JoinOf(up) = "rejected"
    /\ \A i \in DOMAIN up : up[i].pc \in {"ok", "failed"}
    /\ compose' = "none"
    /\ cAuth' = ""
    /\ up' = <<>>
    /\ UNCHANGED <<session, callVars>>

\* runImageRecipe has settled and with it editOrComposeWithImagen.
ComposeEnds ==
    /\ compose = "recipe"
    /\ Finish
    /\ compose' = "none"
    /\ cAuth' = ""
    /\ up' = <<>>

NextCompose ==
    \/ \E n \in 0..MaxImages, auth \in TokenValues \cup {""} :
         ComposeStart(n, auth) /\ UNCHANGED <<callers, proxyVars, statusVars>>
    \/ \E i \in 1..MaxImages, res \in UploadRefills :
         UploadRefillSettles(i, res) /\ UNCHANGED <<callers, proxyVars, statusVars>>
    \/ \E i \in 1..MaxImages, resp \in Responses :
         \E body \in BodiesOf(resp) : UploadFetchSettles(i, resp, body) /\ UNCHANGED <<callers, proxyVars, statusVars>>
    \/ StartRecipe /\ UNCHANGED <<callers, proxyVars, statusVars>>
    \/ ComposeFails /\ UNCHANGED <<callers, proxyVars, statusVars>>
    \/ \E g \in GateReplies : GateFails(g) /\ UNCHANGED sideVars
    \/ \E g \in GateReplies : GateGrants(g) /\ UNCHANGED sideVars
    \/ \E g \in GateReplies : GateDenies(g) /\ UNCHANGED sideVars
    \/ SleepDone /\ UNCHANGED sideVars
    \/ \E res \in RefillResults : RefillSettles(res) /\ UNCHANGED sideVars
    \/ \E resp \in Responses : FetchSettles(resp) /\ UNCHANGED sideVars
    \/ ComposeEnds /\ UNCHANGED <<callers, proxyVars, statusVars>>

SpecCompose == Init /\ [][NextCompose]_vars

\* -------------------------------------------------- overlapping dispatches
\* Dispatches without an explicit credential whose lines 120-157 overlap: each
\* has its own locals, all share sessionStorage and localStorage. A dispatch is
\* followed up to the point where it enters its attempt loop or throws.
CallerStarts(i) ==
    /\ callers[i].pc = "idle"
    /\ \E sh \in Shuffles(GetSharedTokens(veoAuthTokens)) :
         callers' = [callers EXCEPT ![i] =
            IF Len(sh) = 0
              THEN Caller("refill", GetPersonalToken(personalAuthToken), sh, <<>>, TRUE,
                          NoCaller.res)
              ELSE Caller("loop", GetPersonalToken(personalAuthToken), sh,
                          CandidateList(GetPersonalToken(personalAuthToken), sh), FALSE,
                          NoCaller.res)]
    /\ UNCHANGED <<session, callVars, composeVars, proxyVars, statusVars>>

\* getVeoAuthTokens() of dispatch i settles (lines 137-157).
CallerRefillSettles(i, res) ==
    /\ callers[i].pc = "refill"
    /\ veoAuthTokens' = StoreRefill(veoAuthTokens, res)
    /\ refilled' = IF res.ok /\ Len(res.tokens) > 0 THEN res.tokens ELSE refilled
    /\ LET c == callers[i]
           sh == AdoptRefill(c.sharedTokens, res)
           list == CandidateList(c.personalToken, sh)
       IN  callers' = [callers EXCEPT ![i] =
              Caller(IF Len(list) = 0 THEN "thrown" ELSE "loop", c.personalToken, sh, list,
                     TRUE, res)]
    /\ UNCHANGED <<personalAuthToken, callVars, composeVars, proxyVars, statusVars>>

\* Every dispatch under way has entered its loop or thrown.
CallersLeave ==
    /\ \A i \in DOMAIN callers : callers[i].pc # "refill"
    /\ \E i \in DOMAIN callers : callers[i].pc # "idle"
    /\ callers' = [i \in DOMAIN callers |-> NoCaller]
    /\ UNCHANGED <<session, callVars, composeVars, proxyVars, statusVars>>

NextOverlap ==
    \/ \E i \in 1..MaxCallers : CallerStarts(i)
    \/ \E i \in 1..MaxCallers, res \in RefillResults : CallerRefillSettles(i, res)
    \/ CallersLeave

SpecOverlap == Init /\ [][NextOverlap]_vars

\* ------------------------------------------------- gate server identity
\* A gated Imagen dispatch followed through lines 88-116 with the URLs it
\* works on: the endpoint built from the module's PROXY_BASE_URL, and the
\* proxy override as it stands when the dispatch resolves serverUrl.
\* The user picks another proxy server, or none.
SelectProxy(v) ==
    /\ v # selectedProxyServer
    /\ selectedProxyServer' = v
    /\ UNCHANGED <<nodeEnv, imagenBaseUrl, gated>>
    /\ UNCHANGED <<session, callVars, composeVars, callers, statusVars>>

\* generateImageWithImagen / runImageRecipe call the dispatcher (lines 299,
\* 332, 360-361), which resolves serverUrl (92-94) and reaches its first rpc.
GatedCall(path) ==
    /\ gated.pc = "idle"
    /\ LET endpoint == imagenBaseUrl \o path
       IN  gated' = GateState("rpc", endpoint,
                              ServerUrl(endpoint,
                                        GetImagenProxyUrl(selectedProxyServer, nodeEnv),
                                        GetVeoProxyUrl(selectedProxyServer, nodeEnv)),
                              <<>>)
    /\ UNCHANGED <<nodeEnv, selectedProxyServer, imagenBaseUrl>>
    /\ UNCHANGED <<session, callVars, composeVars, callers, statusVars>>

\* One rpc of the gate loop returns (lines 98-113); a denial is followed by
\* the next rpc.
GatedRpc(reply) ==
    /\ gated.pc = "rpc"
    /\ GateFailed(reply) \/ SlotAcquired(reply) \/ Len(gated.rpcs) < MaxDenials
    /\ gated' = [gated EXCEPT
                   !.rpcs = Append(gated.rpcs, gated.serverUrl),
                   !.pc = IF GateFailed(reply) THEN "thrown"
                          ELSE IF SlotAcquired(reply) THEN "admitted"
                          ELSE "rpc"]
    /\ UNCHANGED <<nodeEnv, selectedProxyServer, imagenBaseUrl>>
    /\ UNCHANGED <<session, callVars, composeVars, callers, statusVars>>

\* The dispatch is over (its attempts go to gated.endpoint).
GatedEnds ==
    /\ gated.pc \in {"thrown", "admitted"}
    /\ gated' = NoGated
    /\ UNCHANGED <<nodeEnv, selectedProxyServer, imagenBaseUrl>>
    /\ UNCHANGED <<session, callVars, composeVars, callers, statusVars>>

NextProxy ==
    \/ \E v \in ProxyChoices : SelectProxy(v)
    \/ \E path \in GatedPaths : GatedCall(path)
    \/ \E g \in GateReplies : GatedRpc(g)
    \/ GatedEnds

SpecProxy == InitProxy /\ [][NextProxy]_vars

\* --------------------------------------------- dispatcher with a callback
\* The dispatcher called with or without onStatusUpdate: each step of the call
\* hands the callback the statuses of the code it runs (lines 90, 105, 111,
\* 115, 166).
\* Line 166, when the step went on to the head of an iteration.
NotifyAttempt(cb, log) ==
    IF pc' = "fetch"
      THEN Notify(cb, log, AttemptStatus(TokenIdentifier(tokensToTry', idx',
                                            GetPersonalToken(personalAuthToken))))
      ELSE log

OtherSide == <<composeVars, callers, proxyVars>>

CallWithStatus(r, cb) ==
    /\ Call(r)
    /\ onStatusUpdate' = cb
    /\ statuses' = IF IsGenerationRequest(r.logContext)
                     THEN Notify(cb, statuses, WaitingStatus)
                     ELSE NotifyAttempt(cb, statuses)
    /\ UNCHANGED OtherSide

GateFailsWithStatus(reply) ==
    /\ GateFails(reply)
    /\ statuses' = NotifyGateError(onStatusUpdate, statuses)
    /\ UNCHANGED <<onStatusUpdate, OtherSide>>

GateGrantsWithStatus(reply) ==
    /\ GateGrants(reply)
    /\ statuses' = NotifyAttempt(onStatusUpdate,
                                 Notify(onStatusUpdate, statuses, AcquiredStatus))
    /\ UNCHANGED <<onStatusUpdate, OtherSide>>

GateDeniesWithStatus(reply) ==
    /\ GateDenies(reply)
    /\ statuses' = Notify(onStatusUpdate, statuses, RetryStatus)
    /\ UNCHANGED <<onStatusUpdate, OtherSide>>

SleepDoneWithStatus ==
    /\ SleepDone
    /\ UNCHANGED <<statusVars, OtherSide>>

RefillSettlesWithStatus(res) ==
    /\ RefillSettles(res)
    /\ statuses' = NotifyAttempt(onStatusUpdate, statuses)
    /\ UNCHANGED <<onStatusUpdate, OtherSide>>

FetchSettlesWithStatus(resp) ==
    /\ FetchSettles(resp)
    /\ statuses' = NotifyAttempt(onStatusUpdate, statuses)
    /\ UNCHANGED <<onStatusUpdate, OtherSide>>

FinishWithStatus ==
    /\ Finish
    /\ onStatusUpdate' = FALSE
    /\ statuses' = <<>>
    /\ UNCHANGED OtherSide

NextStatus ==
    \/ \E r \in RotationRequests, cb \in BOOLEAN : CallWithStatus(r, cb)
    \/ \E g \in GateReplies : GateFailsWithStatus(g)
    \/ \E g \in GateReplies : GateGrantsWithStatus(g)
    \/ \E g \in GateReplies : GateDeniesWithStatus(g)
    \/ SleepDoneWithStatus
    \/ \E res \in RefillResults : RefillSettlesWithStatus(res)
    \/ \E resp \in Responses : FetchSettlesWithStatus(resp)
    \/ FinishWithStatus

SpecStatus == Init /\ [][NextStatus]_vars

\* ------------------------------------------------------ dispatcher, fair
\* The dispatcher on its own, with the scheduling its awaits rely on: a timer
\* that is pending fires, a refill or a round trip in flight settles, and the
\* gate, asked again and again, at some point grants or errors.
NextLive ==
    \/ \E r \in RotationRequests : Call(r) /\ UNCHANGED sideVars
    \/ \E g \in GateReplies : GateFails(g) /\ UNCHANGED sideVars
    \/ \E g \in GateReplies : GateGrants(g) /\ UNCHANGED sideVars
    \/ \E g \in GateReplies : GateDenies(g) /\ UNCHANGED sideVars
    \/ SleepDone /\ UNCHANGED sideVars
    \/ \E res \in RefillResults : RefillSettles(res) /\ UNCHANGED sideVars
    \/ \E resp \in Responses : FetchSettles(resp) /\ UNCHANGED sideVars
    \/ Finish /\ UNCHANGED sideVars

GateSettles == \E g \in GateReplies : GateGrants(g) \/ GateFails(g)

LiveFairness ==
    /\ SF_vars(GateSettles /\ UNCHANGED sideVars)
    /\ WF_vars(SleepDone /\ UNCHANGED sideVars)
    /\ WF_vars(\E res \in RefillResults : RefillSettles(res) /\ UNCHANGED sideVars)
    /\ WF_vars(\E resp \in Responses : FetchSettles(resp) /\ UNCHANGED sideVars)

SpecLive == Init /\ [][NextLive]_vars /\ LiveFairness

\* ----------------------------------------------------------------- claims
Succeeded(resp) == resp.kind = "json" /\ resp.ok

Rotating == req # NoReq /\ ~req.direct

SomeSuccess == \E k \in DOMAIN replies : Succeeded(replies[k])

FirstSuccess == CHOOSE k \in DOMAIN replies :
                    Succeeded(replies[k]) /\ \A j \in 1..(k - 1) : ~Succeeded(replies[j])

\* Every candidate of the list was attempted and failed.
AllFailed ==
    /\ Rotating
    /\ pc = "done"
    /\ Len(tokensToTry) > 0
    /\ Len(replies) = Len(tokensToTry)
    /\ ~SomeSuccess

\* C1: once a candidate succeeds, the call returns that candidate's response
\* and token, and the number of fetch() calls made is the index of the first
\* succeeding candidate: no later candidate is attempted.
C1_ReturnsFirstSuccess ==
    (Rotating /\ SomeSuccess) =>
        /\ pc = "done"
        /\ outcome = Returned(replies[FirstSuccess], tokensToTry[FirstSuccess].token)
        /\ Len(fetchLog) = FirstSuccess
        /\ Len(replies) = FirstSuccess
        /\ \A k \in 1..FirstSuccess : fetchLog[k].token = tokensToTry[k].token

C1_Witness ==
    /\ Rotating
    /\ SomeSuccess
    /\ FirstSuccess = 2
    /\ Len(tokensToTry) = 3
    /\ outcome.status = "returned"

\* C2: when every candidate fails, the call throws the error of the last
\* candidate attempted, message preserved, as one plain error.
C2_ThrowsLastError ==
    AllFailed =>
        /\ outcome.status = "thrown"
        /\ outcome.error = ErrorOf(replies[Len(replies)])
        /\ outcome.error.message \in
             {"Failed to fetch", "Unexpected token < in JSON at position 0",
              "Invalid credentials", "Quota exceeded", "API call failed (500)"}

C2_Witness ==
    /\ AllFailed
    /\ Len(replies) = 3
    /\ ErrorOf(replies[1]) # ErrorOf(replies[3])
    /\ ErrorOf(replies[2]) # ErrorOf(replies[3])
    /\ outcome.error.message = "API call failed (500)"

\* C3 as stated: N failing candidates leave exactly N+1 Telemetry entries.
C3_Original == AllFailed => Len(logEntries) = Len(tokensToTry) + 1

\* C3 as amended: N failing candidates leave exactly 2N+1 Telemetry entries:
\* for each attempt one 'Attempt with ...' entry followed by one '... failed'
\* entry, and after them one final aggregate entry.
C3_TwoEntriesPerAttempt ==
    AllFailed =>
        /\ Len(logEntries) = 2 * Len(tokensToTry) + 1
        /\ \A k \in 1..Len(tokensToTry) :
             /\ logEntries[2 * k - 1].status = "Success"
             /\ logEntries[2 * k - 1].output = "..." \o SliceLast6(tokensToTry[k].token)
             /\ logEntries[2 * k].status = "Error"
             /\ logEntries[2 * k].error = ErrorOf(replies[k]).message
        /\ logEntries[Len(logEntries)].prompt = "All available auth tokens failed."

C3_Witness ==
    /\ AllFailed
    /\ Len(tokensToTry) = 3
    /\ Len(logEntries) = 7

\* The dispatches the code sends through the admission gate.
Gated == Rotating /\ req.logContext \in {"IMAGEN GENERATE", "IMAGEN RECIPE"}

IsGrant(e) == e.ev = "rpc" /\ e.error = Null /\ e.acquired

IsDenial(e) == e.ev = "rpc" /\ e.error = Null /\ ~e.acquired

IsGateError(e) == e.ev = "rpc" /\ e.error # Null

SlotGranted == \E k \in DOMAIN gateLog : IsGrant(gateLog[k])

NumberOf(P(_)) == Cardinality({k \in DOMAIN gateLog : P(gateLog[k])})

IsGateCall(e) == e.ev = "rpc"

IsSleep(e) == e.ev = "sleep"

\* C4: a gated dispatch makes no fetch() with a bearer credential (and starts
\* no refill) before a gate call has returned acquired = true.
C4_NoAttemptBeforeSlot ==
    (Gated /\ ~SlotGranted) =>
        /\ fetchLog = <<>>
        /\ refillLog = <<>>
        /\ pc \in {"rpc", "sleep", "done"}

C4_Witness ==
    /\ Gated
    /\ NumberOf(IsDenial) = 2
    /\ SlotGranted
    /\ Len(fetchLog) = 1

\* C5: a gate that denies k times and then grants is called exactly k+1
\* times; every denial is followed by exactly one 2000 ms wait and then the
\* next gate call; the grant is the last gate call.
C5_PollsUntilGranted ==
    /\ \A k \in DOMAIN gateLog :
         /\ IsGrant(gateLog[k]) => k = Len(gateLog)
         /\ IsDenial(gateLog[k]) =>
              /\ k < Len(gateLog) => gateLog[k + 1] = Sleep(2000)
              /\ k + 1 < Len(gateLog) => IsGateCall(gateLog[k + 2])
              /\ k = Len(gateLog) => pc = "sleep"
         /\ IsSleep(gateLog[k]) => k > 1 /\ IsDenial(gateLog[k - 1])
    /\ SlotGranted =>
         /\ pc \notin {"rpc", "sleep"}
         /\ NumberOf(IsGateCall) = NumberOf(IsDenial) + 1
         /\ NumberOf(IsSleep) = NumberOf(IsDenial)

C5_Witness ==
    /\ SlotGranted
    /\ NumberOf(IsDenial) = 2
    /\ NumberOf(IsGateCall) = 3
    /\ pc = "done"

\* C6: when a gate call returns an error the dispatch fails at once with the
\* admission-gate error: that call is the last gate call, and the call makes
\* no fetch(), no refill and no Telemetry entry.
C6_GateErrorIsFatal ==
    \A k \in DOMAIN gateLog :
        IsGateError(gateLog[k]) =>
            /\ k = Len(gateLog)
            /\ pc = "done"
            /\ outcome = Thrown(MkError("Error",
                   "Database error while requesting a generation slot: " \o gateLog[k].error))
            /\ fetchLog = <<>>
            /\ refillLog = <<>>
            /\ logEntries = <<>>
            /\ busEvents = <<>>

C6_Witness ==
    /\ Len(gateLog) = 3
    /\ IsDenial(gateLog[1])
    /\ IsGateError(gateLog[3])
    /\ outcome.status = "thrown"

\* C7 as stated: a dispatch goes through the gate exactly when it is a
\* generation request (image generate, image recipe, text-to-video,
\* image-to-video); polls and uploads never call the gate.
GenerationEndpoints ==
    {"/api/imagen/generate", "/api/imagen/run-recipe",
     "/api/veo/generate-t2v", "/api/veo/generate-i2v"}

C7_GateIffGeneration ==
    Rotating =>
        IF req.endpoint \in GenerationEndpoints
          THEN fetchLog # <<>> => SlotGranted
          ELSE gateLog = <<>> /\ pc \notin {"rpc", "sleep"}

\* C8: no explicit and no personal credential, an empty pool, a refill that
\* returns a non-empty list, every attempt failing: the credentials attempted
\* are, as a multiset, the credentials the refill returned.
RefillSupplied ==
    /\ Rotating
    /\ req.specificToken = ""
    /\ personalAuthToken = ""
    /\ refillLog # <<>>
    /\ refillLog[1].ok
    /\ Len(refillLog[1].tokens) > 0

C8_TriesTheRefilledSet ==
    (RefillSupplied /\ pc = "done" /\ ~SomeSuccess) =>
        /\ Len(refillLog) = 1
        /\ \A t \in TokenValues \cup {fetchLog[k].token : k \in DOMAIN fetchLog} :
             Count(TokensOf(fetchLog), t) = Count(TokensOf(refillLog[1].tokens), t)
        /\ Len(replies) = Len(fetchLog)

C8_Witness ==
    /\ RefillSupplied
    /\ pc = "done"
    /\ ~SomeSuccess
    /\ Len(refillLog[1].tokens) = 2
    /\ refillLog[1].tokens[1] # refillLog[1].tokens[2]
    /\ Len(fetchLog) = 2

\* C9: on the direct path, a server that has not completed its response
\* within the 15000 ms deadline makes the call fail with 'Request timed out
\* after 15 seconds.', after its single fetch() and with no second one.
DirectDone == req # NoReq /\ req.direct /\ pc = "done"

C9_DeadlineGivesTimeout ==
    (DirectDone /\ CompletesAt(server) > 15000) =>
        /\ outcome = Thrown(MkError("Error", "Request timed out after 15 seconds."))
        /\ Len(fetchLog) = 1
        /\ fetchLog[1].token = req.specificToken
        /\ replies = <<>>
        /\ elapsed = 15000
        /\ ~timerArmed

C9_Witness ==
    /\ DirectDone
    /\ server.headersAt = 10000
    /\ server.bodyAt = 20000
    /\ outcome.status = "thrown"
    /\ outcome.error.message = "Request timed out after 15 seconds."

\* C10: a call in which the personal credential is attempted and fails
\* publishes exactly one 'personalTokenFailed' event, however many shared
\* candidates follow and whatever they give.
PersonalFailed ==
    /\ Rotating
    /\ \E k \in DOMAIN replies : fetchLog[k].fromPersonal /\ ~Succeeded(replies[k])

C10_OneNotification ==
    PersonalFailed => busEvents = <<"personalTokenFailed">>

C10_Witness ==
    /\ PersonalFailed
    /\ pc = "done"
    /\ Len(replies) = 3
    /\ ~Succeeded(replies[2])
    /\ Succeeded(replies[3])

\* The call picks its candidates itself: no explicit credential was passed.
Unpinned == Rotating /\ req.specificToken = ""

Pinned == Rotating /\ req.specificToken # ""

\* C11 as stated: no credential value appears twice in a candidate list, so
\* none is attempted twice in one call.
C11_NoDuplicateCandidates ==
    Rotating =>
        /\ \A j, k \in DOMAIN tokensToTry :
             tokensToTry[j].token = tokensToTry[k].token => j = k
        /\ \A j, k \in DOMAIN fetchLog :
             fetchLog[j].token = fetchLog[k].token => j = k

\* C12: an empty candidate list makes the call fail with the 'no credentials
\* available' error, with no fetch(), no Telemetry entry and no notification.
NoCandidates ==
    /\ Unpinned
    /\ pc = "done"
    /\ tokensToTry = <<>>
    /\ refillLog # <<>>

C12_EmptyListFailsEarly ==
    /\ NoCandidates =>
         /\ outcome = Thrown(MkError("Error",
                "Auth Token is required for " \o req.logContext \o ". Please set one in Settings."))
         /\ fetchLog = <<>>
         /\ replies = <<>>
         /\ logEntries = <<>>
         /\ busEvents = <<>>
    /\ (Rotating /\ fetchLog # <<>>) => tokensToTry # <<>>
    /\ (Unpinned /\ pc = "done" /\ personalAuthToken = "" /\ Len(refillLog) = 1
          /\ (~refillLog[1].ok \/ refillLog[1].tokens = <<>>)) => NoCandidates

C12_Witness ==
    /\ NoCandidates
    /\ Gated
    /\ refillLog[1].ok
    /\ outcome.status = "thrown"

\* C13: with an explicit credential the candidate list is that one
\* credential: neither the personal credential nor the shared pool is read,
\* no refill is started and at most one fetch() is made.
C13_ExplicitCredentialOnly ==
    Pinned =>
        /\ tokensToTry \in {<<>>, <<[token |-> req.specificToken, createdAt |-> "N/A"]>>}
        /\ fetchLog # <<>> => Len(tokensToTry) = 1
        /\ personalToken = NoToken
        /\ sharedTokens = <<>>
        /\ refillLog = <<>>
        /\ pc # "refill"
        /\ Len(fetchLog) <= 1
        /\ \A k \in DOMAIN fetchLog : fetchLog[k].token = req.specificToken
        /\ pc = "done" => Len(fetchLog) = 1 \/ ~SlotGranted

C13_Witness ==
    /\ Pinned
    /\ req.op = "checkVideoStatus"
    /\ personalAuthToken # ""
    /\ personalAuthToken # req.specificToken
    /\ veoAuthTokens # <<>>
    /\ pc = "done"
    /\ outcome.status = "thrown"
    /\ Len(fetchLog) = 1

\* C14: with no explicit credential and a personal credential configured,
\* the first candidate attempted is the personal credential, whatever the
\* shuffle and the refill give: no shared credential is attempted before it.
C14_PersonalFirst ==
    (Unpinned /\ personalAuthToken # "" /\ fetchLog # <<>>) =>
        /\ tokensToTry[1] = [token |-> personalAuthToken, createdAt |-> "personal"]
        /\ fetchLog[1].token = personalAuthToken
        /\ fetchLog[1].fromPersonal
        /\ \A k \in 2..Len(tokensToTry) : tokensToTry[k].createdAt # "personal"
        /\ logEntries[1].prompt = "Attempt with Personal Token"

C14_Witness ==
    /\ Unpinned
    /\ personalAuthToken # ""
    /\ Len(fetchLog) = 2
    /\ fetchLog[2].token # personalAuthToken
    /\ Len(tokensToTry) = 3
    /\ tokensToTry[2] # tokensToTry[3]

\* C15: the attempts of one call are strictly sequential: at most one
\* fetch() is in flight, and attempt i+1 is started only after attempt i
\* has completed with a failure.
InFlight == Len(fetchLog) - Len(replies)

C15_SequentialAttempts ==
    Rotating =>
        /\ InFlight \in {0, 1}
        /\ InFlight = 1 <=> pc = "fetch"
        /\ \A k \in 1..(Len(fetchLog) - 1) :
             k <= Len(replies) /\ ~Succeeded(replies[k])

C15_Witness ==
    /\ Rotating
    /\ Len(fetchLog) = 3
    /\ InFlight = 1

\* C16 as stated: no Telemetry entry of a call holds a full credential
\* value; what is recorded of a credential is a suffix strictly shorter than
\* the credential, whatever its length.
C16_NeverFullCredential ==
    Rotating =>
        \A k \in DOMAIN logEntries :
            /\ \A t \in TokenValues : ~Includes(logEntries[k].output, t)
            /\ \A j \in DOMAIN tokensToTry :
                 logEntries[k].prompt = "Attempt with " \o
                     TokenIdentifier(tokensToTry, j, GetPersonalToken(personalAuthToken))
                 => Len(logEntries[k].output) - 3 < Len(tokensToTry[j].token)

\* C17: the direct path never calls the gate, never reads or refills the
\* credential store, and makes exactly one fetch(), with the credential it
\* was given, whatever the outcome.
Direct == req # NoReq /\ req.direct

C17_DirectPathIsOneAttempt ==
    Direct =>
        /\ pc \in {"dfetch", "djson", "done"}
        /\ gateLog = <<>>
        /\ refillLog = <<>>
        /\ personalToken = NoToken
        /\ sharedTokens = <<>>
        /\ tokensToTry = <<>>
        /\ logEntries = <<>>
        /\ busEvents = <<>>
        /\ Len(fetchLog) = 1
        /\ fetchLog[1].token = req.specificToken
        /\ fetchLog[1].endpoint = req.endpoint
        /\ Len(replies) <= 1

C17_Witness ==
    /\ Direct
    /\ pc = "done"
    /\ personalAuthToken # ""
    /\ personalAuthToken # req.specificToken
    /\ veoAuthTokens = <<>>
    /\ outcome.status = "thrown"
    /\ outcome.error.message = "Invalid credentials"

\* C18: a failing refill does not abort the call: with the pool empty and the
\* refill failing, the call goes on with the personal credential alone when
\* one is configured, and fails with the 'no credentials available' error
\* when none is.
RefillFailed ==
    /\ Unpinned
    /\ refillLog # <<>>
    /\ ~refillLog[1].ok

C18_RefillFailureNotFatal ==
    RefillFailed =>
        /\ Len(refillLog) = 1
        /\ veoAuthTokens = <<>>
        /\ personalAuthToken # "" =>
             /\ tokensToTry = <<[token |-> personalAuthToken, createdAt |-> "personal"]>>
             /\ Len(fetchLog) = 1
             /\ fetchLog[1].token = personalAuthToken
             /\ pc \in {"fetch", "done"}
             /\ pc = "done" =>
                  /\ Len(replies) = 1
                  /\ outcome = IF Succeeded(replies[1])
                                 THEN Returned(replies[1], personalAuthToken)
                                 ELSE Thrown(ErrorOf(replies[1]))
        /\ personalAuthToken = "" =>
             /\ pc = "done"
             /\ fetchLog = <<>>
             /\ outcome = Thrown(MkError("Error",
                    "Auth Token is required for " \o req.logContext \o ". Please set one in Settings."))

C18_Witness ==
    /\ RefillFailed
    /\ personalAuthToken # ""
    /\ pc = "done"
    /\ outcome.status = "returned"

\* C19: after a successful refill the cache holds the refill's result, and a
\* later call of the session that reads the cache takes those credentials as
\* its shared pool and starts no refill of its own.
IsPermutation(a, b) ==
    /\ Len(a) = Len(b)
    /\ \A k \in DOMAIN a : Count(a, a[k]) = Count(b, a[k])

\* A call after the refilling one: it has no refill of its own.
LaterCall == Unpinned /\ refilled # <<>> /\ refillLog = <<>>

C19_RefillFeedsLaterCalls ==
    refilled # <<>> =>
        /\ veoAuthTokens = refilled
        /\ pc # "refill"
        /\ refillLog # <<>> => refillLog = <<[ok |-> TRUE, tokens |-> refilled]>>
        /\ (LaterCall /\ pc \in {"fetch", "done"} /\ (Gated => SlotGranted)) =>
             /\ IsPermutation(sharedTokens, refilled)
             /\ \E n \in {0, 1} :
                  /\ Len(tokensToTry) = n + Len(sharedTokens)
                  /\ \A k \in DOMAIN sharedTokens : tokensToTry[n + k] = sharedTokens[k]

C19_Witness ==
    /\ LaterCall
    /\ pc = "fetch"
    /\ Len(sharedTokens) = 2
    /\ sharedTokens # refilled
    /\ Len(fetchLog) = 2
RecipeStarted == req.op = "runImageRecipe"

Uploading(i) == up[i].pc \in {"refill", "fetch"}

\* C20: in editOrComposeWithImagen the uploads are independent dispatches in
\* flight together, joined before the compose call: the run-recipe dispatch
\* is started only once every upload has completed with a media id, and it is
\* not started while an upload is still in flight nor after one has failed.
C20_RecipeAfterAllUploads ==
    /\ compose = "recipe" <=> RecipeStarted
    /\ RecipeStarted =>
         \A i \in DOMAIN up : up[i].pc = "ok" /\ up[i].mediaId # ""
    /\ (\E i \in DOMAIN up : up[i].pc = "failed" \/ Uploading(i)) =>
         /\ ~RecipeStarted
         /\ pc = "idle"
         /\ fetchLog = <<>>
         /\ gateLog = <<>>

C20_Witness ==
    /\ RecipeStarted
    /\ Len(up) = 2
    /\ pc = "fetch"
    /\ Len(fetchLog) = 1
    /\ fetchLog[1].endpoint = "/api/imagen/run-recipe"

Running == pc \in {"rpc", "sleep", "refill", "fetch"}

Terminated == pc = "done" /\ outcome.status \in {"returned", "thrown"}

\* C21: with a gate that at some point grants or errors and refills and round
\* trips that settle, every call of the dispatcher in progress comes to its
\* end, having returned a response or thrown an error.
C21_CallTerminates == Running ~> Terminated

C21_Witness ==
    /\ Terminated
    /\ NumberOf(IsDenial) = MaxDenials
    /\ refillLog # <<>>
    /\ Len(replies) >= 2

Completed(i) == callers[i].asked /\ callers[i].pc # "refill"

Supplied(i) == Completed(i) /\ callers[i].res.ok /\ callers[i].res.tokens # <<>>

\* C22: dispatches that overlap and all find the shared pool empty each run
\* their own refill; a dispatch whose refill returned credentials enters its
\* attempt loop with them as its shared candidates, and once a refill has
\* returned credentials the cache holds exactly the result of one of the
\* refills completed so far.
C22_OverlappingRefills ==
    /\ \A i \in DOMAIN callers :
         Supplied(i) =>
            /\ callers[i].pc = "loop"
            /\ callers[i].sharedTokens = callers[i].res.tokens
            /\ callers[i].tokensToTry # <<>>
            /\ \E n \in {0, 1} :
                 /\ Len(callers[i].tokensToTry) = n + Len(callers[i].res.tokens)
                 /\ \A k \in DOMAIN callers[i].res.tokens :
                      callers[i].tokensToTry[n + k] = callers[i].res.tokens[k]
    /\ (\E i \in DOMAIN callers : Supplied(i)) =>
         \E i \in DOMAIN callers : Supplied(i) /\ veoAuthTokens = callers[i].res.tokens

C22_Witness ==
    /\ Supplied(1)
    /\ Supplied(2)
    /\ callers[1].res.tokens # callers[2].res.tokens
    /\ Len(callers[1].res.tokens) = 2
    /\ veoAuthTokens = callers[1].res.tokens

\* C23 as stated: the server_url of every gate call is the base URL of the
\* server the request goes to, that is, the endpoint is that server_url
\* followed by the service's path.
C23_GateServerIsDestination ==
    \A k \in DOMAIN gated.rpcs :
        \E path \in GatedPaths : gated.endpoint = GetProxyBaseUrl(gated.rpcs[k]) \o path

RECURSIVE Repeat(_, _)
Repeat(x, n) == IF n = 0 THEN <<>> ELSE <<x>> \o Repeat(x, n - 1)

AttemptStatuses ==
    [k \in DOMAIN fetchLog |->
        AttemptStatus(TokenIdentifier(tokensToTry, k, GetPersonalToken(personalAuthToken)))]

GateErrored == \E k \in DOMAIN gateLog : IsGateError(gateLog[k])

\* C24: a gated dispatch with a progress callback is handed, in this order,
\* the waiting message once (before the first gate call), one retry message
\* per denial, then either the empty string alone when the gate errors, or
\* the acquired message once followed by one attempt message per candidate
\* attempted.
C24_StatusOrder ==
    (Gated /\ onStatusUpdate) =>
        statuses = <<WaitingStatus>>
                   \o Repeat(RetryStatus, NumberOf(IsDenial))
                   \o (IF GateErrored THEN <<"">> ELSE <<>>)
                   \o (IF SlotGranted THEN <<AcquiredStatus>> \o AttemptStatuses ELSE <<>>)

C24_Witness ==
    /\ Gated
    /\ onStatusUpdate
    /\ NumberOf(IsDenial) = 1
    /\ SlotGranted
    /\ Len(fetchLog) = 2
    /\ Len(statuses) = 5
    /\ pc = "done"

\* C25: the cached shared pool changes only in the step in which some
\* dispatch's refill returns credentials, and then to exactly those; a
\* dispatch that starts on a non-empty pool (and shuffles its copy), or whose
\* refill fails or returns nothing, leaves the cache as it was.
C25_CacheWrittenOnlyByRefill ==
    [][veoAuthTokens' # veoAuthTokens =>
          \E i \in DOMAIN callers :
              /\ callers[i].pc = "refill"
              /\ callers'[i].pc = "loop"
              /\ callers'[i].res.ok
              /\ callers'[i].res.tokens # <<>>
              /\ veoAuthTokens' = callers'[i].res.tokens]_vars

C25_Witness ==
    /\ Supplied(1)
    /\ Completed(2)
    /\ ~callers[2].res.ok
    /\ veoAuthTokens = callers[1].res.tokens
    /\ Len(veoAuthTokens) = 2

\* The list is built and the call found its shared candidates in the cache.
FromCache ==
    /\ Unpinned
    /\ refillLog = <<>>
    /\ veoAuthTokens # <<>>
    /\ pc \in {"fetch", "done"}
    /\ Gated => SlotGranted

PersonalCount == IF personalAuthToken # "" THEN 1 ELSE 0

\* C26: with no explicit credential and a non-empty cached pool, the shared
\* part of the candidate list (what follows the personal credential) holds
\* every credential of the pool exactly as often as the pool does, whatever
\* the shuffle drew.
C26_SharedPartIsPermutation ==
    FromCache =>
        /\ Len(tokensToTry) = PersonalCount + Len(veoAuthTokens)
        /\ \A rec \in SharedRecords \cup {veoAuthTokens[k] : k \in DOMAIN veoAuthTokens} :
             Count(SubSeq(tokensToTry, PersonalCount + 1, Len(tokensToTry)), rec)
               = Count(veoAuthTokens, rec)

C26_Witness ==
    /\ FromCache
    /\ Len(veoAuthTokens) = 2
    /\ veoAuthTokens[1] # veoAuthTokens[2]
    /\ tokensToTry[PersonalCount + 1] = veoAuthTokens[2]
    /\ PersonalCount = 1

\* The list is built and the call took its shared candidates from its refill.
FromRefill ==
    /\ Unpinned
    /\ refillLog # <<>>
    /\ refillLog[1].ok
    /\ refillLog[1].tokens # <<>>
    /\ pc \in {"fetch", "done"}

\* C27: shared candidates that come from the call's refill are listed, and
\* attempted, in the order the refill returned them: the k-th fetch after the
\* personal credential's carries the k-th refilled credential.
C27_RefillOrderKept ==
    FromRefill =>
        /\ SubSeq(tokensToTry, PersonalCount + 1, Len(tokensToTry)) = refillLog[1].tokens
        /\ \A k \in DOMAIN fetchLog :
             k > PersonalCount =>
                fetchLog[k].token = refillLog[1].tokens[k - PersonalCount].token

C27_Witness ==
    /\ FromRefill
    /\ Len(refillLog[1].tokens) = 2
    /\ refillLog[1].tokens[1] # refillLog[1].tokens[2]
    /\ Len(fetchLog) = PersonalCount + 2
    /\ pc = "done"

====
